---- MODULE Spec2Model ----
(***************************************************************************)
(* Model of gelf/udpwriter.go: the GELF UDP writer.  WriteMessage          *)
(* serialises a record into a pooled buffer, compresses it (gzip, zlib or  *)
(* not at all), and sends the result either as one datagram or as a run of *)
(* chunk datagrams; Write is the io.Writer adapter on top of it.           *)
(*                                                                         *)
(* Byte strings are kept in run-length form: a byte string is a sequence   *)
(* of pieces, and the piece [kind, id, x, y, lo, hi] stands for the bytes  *)
(* lo .. hi-1 (0-based, half open, as a Go slice expression) of the byte   *)
(* source (kind, id, x, y):                                                *)
(*   "json"  the serialised form of record id, x bytes long;               *)
(*   "gzip"/"zlib"  the compressed stream the codec produces for record    *)
(*           id (x bytes long); the stream is y bytes long;                *)
(*   "hdr"   the 12-byte chunk header: magicChunked, the 8-byte message    *)
(*           identifier id, the sequence byte x and the total byte y.      *)
(* Two byte strings are equal exactly when their normal forms (no empty    *)
(* piece, adjacent pieces of one source merged) are equal.                 *)
(***************************************************************************)
EXTENDS Integers, Sequences, FiniteSets, TLC

\* ---- bounds of the model ------------------------------------------------
NumProcs == 2      \* goroutines that may call the writer
MaxK == 2          \* payload lengths are taken around k*chunkedDataLen, k <= MaxK
NumMsgIds == 2     \* distinct 8-byte identifiers rand.Reader may yield
MaxPLen == 2       \* len(p) of the slices handed to Write is 0 or MaxPLen

\* ---- program constants --------------------------------------------------
CompressGzip == 0
CompressZlib == 1
CompressNone == 2

ChunkSize == 1420
chunkedHeaderLen == 12
chunkedDataLen == ChunkSize - chunkedHeaderLen

\* the cap of the chunked sender on the chunk count
maxChunks == 128

Procs == 1 .. NumProcs
BufIds == 1 .. (2 * NumProcs)
MsgIds == 1 .. NumMsgIds

\* ---- byte strings ---------------------------------------------------------
Piece(kind, id, x, y, lo, hi) ==
    [kind |-> kind, id |-> id, x |-> x, y |-> y, lo |-> lo, hi |-> hi]

Bytes(kind, id, x, y, lo, hi) ==
    IF hi <= lo THEN << >> ELSE << Piece(kind, id, x, y, lo, hi) >>

SameSource(a, b) ==
    a.kind = b.kind /\ a.id = b.id /\ a.x = b.x /\ a.y = b.y

RECURSIVE BLen(_)
BLen(s) == IF s = << >> THEN 0 ELSE (Head(s).hi - Head(s).lo) + BLen(Tail(s))

\* append(s, t...) / bytes.Buffer.Write: concatenation, kept in normal form
Cat(s, t) ==
    IF s = << >> THEN t
    ELSE IF t = << >> THEN s
    ELSE LET a == s[Len(s)]
             b == Head(t)
         IN IF SameSource(a, b) /\ a.hi = b.lo
            THEN SubSeq(s, 1, Len(s) - 1) \o << [a EXCEPT !.hi = b.hi] >> \o Tail(t)
            ELSE s \o t

RECURSIVE Drop(_, _)
Drop(s, n) ==
    IF n <= 0 \/ s = << >> THEN s
    ELSE LET h == Head(s)
             w == h.hi - h.lo
         IN IF n >= w THEN Drop(Tail(s), n - w)
            ELSE << [h EXCEPT !.lo = h.lo + n] >> \o Tail(s)

RECURSIVE Take(_, _)
Take(s, n) ==
    IF n <= 0 \/ s = << >> THEN << >>
    ELSE LET h == Head(s)
             w == h.hi - h.lo
         IN IF n >= w THEN << h >> \o Take(Tail(s), n - w)
            ELSE << [h EXCEPT !.hi = h.lo + n] >>

\* the Go slice expression s[i:j]
Slice(s, i, j) == Take(Drop(s, i), j - i)

Min(a, b) == IF a <= b THEN a ELSE b

\* ---- inputs ---------------------------------------------------------------
\* lengths at the boundaries of the chunk planner and of the sender's cap,
\* and one whose chunk count no longer fits the header's one-byte fields
Lens ==
    {1, ChunkSize, ChunkSize + 1}
    \cup {k * chunkedDataLen + d : k \in 1 .. MaxK, d \in {0, 1}}
    \cup {maxChunks * chunkedDataLen, 256 * chunkedDataLen}

PLens == {0, MaxPLen}

\* with several goroutines calling at once: a payload that goes out directly
\* and one that is split
ConcLens == {ChunkSize, ChunkSize + 1}

\* CompressionType is an int: the three constants and one value outside them
CompressTypes == {CompressGzip, CompressZlib, CompressNone, CompressNone + 1}

\* flate.BestSpeed, the level NewUDPWriter sets
BestSpeed == 1
\* CompressionLevel is an exported field: BestSpeed, or a level no codec accepts
Levels == {BestSpeed, 10}

\* gzip.NewWriterLevel / zlib.NewWriterLevel accept HuffmanOnly .. BestCompression
LevelOK(l) == l >= 0 - 2 /\ l <= 9

\* ---- errors ---------------------------------------------------------------
Err(kind, n, want) == [kind |-> kind, n |-> n, want |-> want]
NoErr == Err("nil", 0, 0)

\* ---- state ----------------------------------------------------------------
VARIABLES
    cfg,      \* the UDPWriter: [ctype, level]
    active,   \* the goroutines that call the writer
    pool,     \* bufPool: the buffers lying in the pool
    buf,      \* the contents of every bytes.Buffer
    call,     \* per goroutine: the frame of its Write / WriteMessage call
    wire      \* the calls of conn.Write, in the order they were made

vars == << cfg, active, pool, buf, call, wire >>

IdleCall ==
    [pc |-> "idle", kind |-> "none", plen |-> 0,
     rec |-> [id |-> 0, len |-> 0, ok |-> TRUE],
     mBuf |-> 0, mlen |-> 0, zBuf |-> 0, zb |-> 0, zlen |-> 0, zl |-> 0,
     opened |-> 0, closes |-> 0, zwFailed |-> FALSE, closeFailed |-> FALSE,
     residue |-> 0,
     defers |-> << >>, acq |-> << >>, puts |-> << >>,
     path |-> "none", planned |-> 0, z |-> << >>,
     nChunks |-> 0, msgId |-> 0, i |-> 0, cerr |-> NoErr,
     err |-> NoErr, panicked |-> FALSE,
     ret |-> [n |-> 0, err |-> NoErr]]

\* the buffers goroutine p holds: acquired and not yet put back
Held(p) ==
    {call[p].acq[k] : k \in 1 .. Len(call[p].acq)}
    \ {call[p].puts[k] : k \in 1 .. Len(call[p].puts)}

Allocated == pool \cup UNION {Held(p) : p \in Procs}

\* mBytes := mBuf.Bytes() and zBytes: slices that alias a buffer's memory
MBytes(p) == Take(buf[call[p].mBuf], call[p].mlen)
ZBytes(p) == IF call[p].zb = 0 THEN << >> ELSE Take(buf[call[p].zb], call[p].zlen)

\* the transport writes goroutine p's call has made
Sent(p) == SelectSeq(wire, LAMBDA e : e.by = p)

\* the lengths and entry points a run draws from: all of them when one
\* goroutine calls; with several, the failures of the collaborators are
\* left to the one-goroutine runs, but for the transport error
Concurrent == Cardinality(active) > 1
InLens == IF Concurrent THEN ConcLens ELSE Lens
\* the length of the serialised record: what the codec makes of it is drawn
\* from InLens, so concurrent runs that compress keep one record length
InRecLens == IF Concurrent /\ cfg.ctype # CompressNone THEN {ChunkSize + 1}
             ELSE InLens
InKinds == IF Concurrent THEN {"WriteMessage"} ELSE {"WriteMessage", "Write"}
InFailures == IF Concurrent THEN {} ELSE {"marshal", "zwrite", "zclose"}

\* ---- pure functions -------------------------------------------------------
\* numChunks without the "+ 1"
numChunksFloor(b) ==
    LET lenB == BLen(b)
    IN IF lenB <= ChunkSize THEN 1 ELSE BLen(b) \div chunkedDataLen

\* numChunks comparing against the data capacity instead of ChunkSize
numChunksDataLen(b) ==
    LET lenB == BLen(b)
    IN IF lenB <= chunkedDataLen THEN 1 ELSE BLen(b) \div chunkedDataLen + 1

\* numChunks letting a payload of ChunkSize plus a header's length go unsplit
numChunksLoose(b) ==
    LET lenB == BLen(b)
    IN IF lenB <= ChunkSize + chunkedHeaderLen THEN 1
       ELSE BLen(b) \div chunkedDataLen + 1

numChunks(b) ==
    LET lenB == BLen(b)
    IN IF lenB <= ChunkSize THEN 1 ELSE BLen(b) \div chunkedDataLen + 1

\* the serialised record, as MarshalJSONBuf appends it to the buffer
Json(rec) == Bytes("json", rec.id, rec.len, 0, 0, rec.len)

magicChunked == << 30, 15 >>
magicZlib == << 120 >>
magicGzip == << 31, 139 >>

CodecKind(t) == IF t = CompressGzip THEN "gzip" ELSE "zlib"
CodecMagic(t) == IF t = CompressGzip THEN magicGzip ELSE magicZlib

\* bytes lo .. hi-1 of the stream the codec t makes of the bytes m, zl long
Stream(t, m, zl, lo, hi) ==
    IF Len(m) = 1 /\ m[1].kind = "json" /\ m[1].lo = 0 /\ m[1].hi = m[1].x
    THEN Bytes(CodecKind(t), m[1].id, m[1].x, zl, lo, hi)
    ELSE Bytes(CodecKind(t), 0, BLen(m), zl, lo, hi)

\* the 12-byte chunk header; the sequence and the total are one byte each
Header(id, seq, total) ==
    Bytes("hdr", id, seq % 256, total % 256, 0, chunkedHeaderLen)

\* what conn.Write may report for a datagram of L bytes
WriteOutcomes(L) ==
    {[n |-> L, err |-> FALSE], [n |-> 0, err |-> TRUE]}
    \cup {[n |-> L - 1, err |-> FALSE] : k \in {1} \cap (1 .. L)}

InOutcomes(L) ==
    IF Concurrent THEN {o \in WriteOutcomes(L) : o.err \/ o.n = L}
    ELSE WriteOutcomes(L)

\* ---- the buffer pool ------------------------------------------------------
\* bufPool.Get(): a buffer lying in the pool or, through New, a fresh one
GetChoices ==
    LET fresh == BufIds \ Allocated
    IN pool \cup (IF fresh = {} THEN {}
                  ELSE {CHOOSE b \in fresh : \A c \in fresh : b <= c})

\* newBuffer that hands out the buffer as it was put back
newBufferNoReset(old) == old

\* newBuffer: b.Reset() clears the logical length
newBuffer(old) == << >>

\* bufPool.Put(b) without "defer": the buffer is back in the pool at once
PoolAfterNewBufferPutAtOnce(b) == pool

\* the pool once newBuffer took b out of it; the Put is deferred to the return
PoolAfterNewBuffer(b) == pool \ {b}

\* a defer statement that is lost once another one is pending
DeferPutLost(b, ds) == IF ds = << >> THEN << b >> ELSE ds

\* defer bufPool.Put(b): the deferred calls run last in, first out
DeferPut(b, ds) == << b >> \o ds

\* ---- initial states -------------------------------------------------------
\* bufPool is a package variable: before the call it is empty, or it holds
\* a buffer that an earlier call of any writer of the process put back unreset
ResiduePool ==
    [b \in BufIds |->
        IF b = 1 THEN Bytes("json", 0, ChunkSize + 1, 0, 0, ChunkSize + 1)
        ELSE << >>]

InitWith(callers) ==
    /\ cfg \in [ctype : CompressTypes, level : Levels]
    /\ active = callers
    /\ \/ pool = {} /\ buf = [b \in BufIds |-> << >>]
       \/ pool = {1} /\ buf = ResiduePool
    /\ call = [p \in Procs |-> IdleCall]
    /\ wire = << >>

Init == InitWith({1})

\* two goroutines call the one writer, set up as NewUDPWriter leaves it but
\* for the compression type, at the same time
InitConc ==
    /\ InitWith({1, 2})
    /\ cfg.ctype \in {CompressGzip, CompressNone}
    /\ cfg.level = BestSpeed

\* ---- Write and WriteMessage ----------------------------------------------
Messages(p) ==
    {[id |-> p, len |-> l, ok |-> TRUE] : l \in InRecLens}
    \cup {[id |-> p, len |-> 0, ok |-> FALSE] : f \in InFailures \cap {"marshal"}}

\* a goroutine enters WriteMessage(m), or Write(p), which builds m and calls it
Start(p) ==
    /\ call[p].pc = "idle"
    /\ p \in active
    /\ \E m \in Messages(p), kind \in InKinds :
         \E plen \in IF kind = "Write" THEN PLens ELSE {0} :
            call' = [call EXCEPT ![p] =
                        [IdleCall EXCEPT !.pc = "getM", !.kind = kind,
                                         !.plen = plen, !.rec = m]]
    /\ UNCHANGED << cfg, active, pool, buf, wire >>

\* mBuf := newBuffer(); defer bufPool.Put(mBuf)
GetM(p) ==
    /\ call[p].pc = "getM"
    /\ \E b \in GetChoices :
         /\ pool' = PoolAfterNewBuffer(b)
         /\ buf' = [buf EXCEPT ![b] = newBuffer(buf[b])]
         /\ call' = [call EXCEPT ![p].mBuf = b,
                                 ![p].residue = @ + BLen(buf[b]),
                                 ![p].acq = Append(@, b),
                                 ![p].defers = DeferPut(b, @),
                                 ![p].pc = "marshal"]
    /\ UNCHANGED << cfg, active, wire >>

\* m.MarshalJSONBuf(mBuf); mBytes := mBuf.Bytes()
Marshal(p) ==
    /\ call[p].pc = "marshal"
    /\ LET c == call[p]
           b == c.mBuf
           new == Cat(buf[b], Json(c.rec))
       IN IF c.rec.ok
          THEN /\ buf' = [buf EXCEPT ![b] = new]
               /\ call' = [call EXCEPT ![p].mlen = BLen(new), ![p].pc = "switch"]
          ELSE /\ call' = [call EXCEPT ![p].err = Err("marshal", 0, 0),
                                       ![p].pc = "ret"]
               /\ UNCHANGED buf
    /\ UNCHANGED << cfg, active, pool, wire >>

\* the switch treating an unknown type as CompressNone
SwitchCaseNoPanic(t, c) ==
    IF t \in {CompressGzip, CompressZlib}
    THEN [c EXCEPT !.pc = "getZ"]
    ELSE [c EXCEPT !.zb = c.mBuf, !.zlen = c.mlen, !.pc = "plan"]

\* the switch whose CompressNone case leaves zBytes unset
SwitchCaseNoneUnset(t, c) ==
    IF t \in {CompressGzip, CompressZlib}
    THEN [c EXCEPT !.pc = "getZ"]
    ELSE IF t = CompressNone
    THEN [c EXCEPT !.pc = "plan"]
    ELSE [c EXCEPT !.panicked = TRUE, !.pc = "ret"]

\* switch w.CompressionType: the frame c after the case for type t
SwitchCase(t, c) ==
    IF t \in {CompressGzip, CompressZlib}
    THEN [c EXCEPT !.pc = "getZ"]
    ELSE IF t = CompressNone
    THEN [c EXCEPT !.zb = c.mBuf, !.zlen = c.mlen, !.pc = "plan"]
    ELSE [c EXCEPT !.panicked = TRUE, !.pc = "ret"]

Switch(p) ==
    /\ call[p].pc = "switch"
    /\ call' = [call EXCEPT ![p] = SwitchCase(cfg.ctype, call[p])]
    /\ UNCHANGED << cfg, active, pool, buf, wire >>

\* zBuf = newBuffer(); defer bufPool.Put(zBuf)
GetZ(p) ==
    /\ call[p].pc = "getZ"
    /\ \E b \in GetChoices :
         /\ pool' = PoolAfterNewBuffer(b)
         /\ buf' = [buf EXCEPT ![b] = newBuffer(buf[b])]
         /\ call' = [call EXCEPT ![p].zBuf = b,
                                 ![p].residue = @ + BLen(buf[b]),
                                 ![p].acq = Append(@, b),
                                 ![p].defers = DeferPut(b, @),
                                 ![p].pc = "newzw"]
    /\ UNCHANGED << cfg, active, wire >>

\* zw, err = gzip.NewWriterLevel(zBuf, level) (or zlib); zw holds a typed
\* pointer, so "zw != nil" is true and a construction error returns
NewZW(p) ==
    /\ call[p].pc = "newzw"
    /\ call' = [call EXCEPT ![p] =
            IF LevelOK(cfg.level)
            THEN [@ EXCEPT !.opened = 1, !.pc = "zwrite"]
            ELSE [@ EXCEPT !.err = Err("level", cfg.level, 0), !.pc = "ret"]]
    /\ UNCHANGED << cfg, active, pool, buf, wire >>

\* "err = zw.Close()" after the failed Write: the close's error wins
ErrAfterFailedWriteClose(werr, cerr) == IF cerr # NoErr THEN cerr ELSE werr

\* lines 135-138: the Write error is returned, whatever Close reports
ErrAfterFailedWrite(werr, cerr) == werr

\* zw.Write(mBytes); on an error zw.Close() and return
ZWrite(p) ==
    /\ call[p].pc = "zwrite"
    /\ LET c == call[p]
           k == Len(CodecMagic(cfg.ctype))
       IN \/ \E zl \in {l \in InLens : l > k} :
               /\ buf' = [buf EXCEPT ![c.zBuf] =
                             Cat(@, Stream(cfg.ctype, MBytes(p), zl, 0, k))]
               /\ call' = [call EXCEPT ![p].zl = zl, ![p].pc = "zclose"]
          \/ /\ "zwrite" \in InFailures
             /\ \E cok \in BOOLEAN :
                  call' = [call EXCEPT
                     ![p].zwFailed = TRUE,
                     ![p].closes = @ + 1,
                     ![p].closeFailed = ~cok,
                     ![p].err = ErrAfterFailedWrite(
                                   Err("zwrite", 0, 0),
                                   IF cok THEN NoErr ELSE Err("zclose", 0, 0)),
                     ![p].pc = "ret"]
             /\ UNCHANGED buf
    /\ UNCHANGED << cfg, active, pool, wire >>

\* zw.Close(); zBytes = zBuf.Bytes().  Close flushes the rest of the stream;
\* the error it returns is dropped
ZClose(p) ==
    /\ call[p].pc = "zclose"
    /\ LET c == call[p]
           k == Len(CodecMagic(cfg.ctype))
       IN \E ok \in {TRUE} \cup {FALSE : f \in InFailures \cap {"zclose"}} :
            LET new == IF ok
                       THEN Cat(buf[c.zBuf],
                                Stream(cfg.ctype, MBytes(p), c.zl, k, c.zl))
                       ELSE buf[c.zBuf]
            IN /\ buf' = [buf EXCEPT ![c.zBuf] = new]
               /\ call' = [call EXCEPT ![p].closes = @ + 1,
                                       ![p].closeFailed = ~ok,
                                       ![p].zb = c.zBuf,
                                       ![p].zlen = BLen(new),
                                       ![p].pc = "plan"]
    /\ UNCHANGED << cfg, active, pool, wire >>

\* if numChunks(zBytes) > 1 { return w.writeChunked(zBytes) }
Plan(p) ==
    /\ call[p].pc = "plan"
    /\ LET n == numChunks(ZBytes(p))
       IN call' = [call EXCEPT ![p].planned = n,
                               ![p].z = ZBytes(p),
                               ![p].path = IF n > 1 THEN "chunked" ELSE "direct",
                               ![p].pc = IF n > 1 THEN "chunked" ELSE "direct"]
    /\ UNCHANGED << cfg, active, pool, buf, wire >>

\* the direct path taking a short count for a full write
DirectResultNoCount(n, werr, want, at) ==
    IF werr THEN Err("transport", at, 0) ELSE NoErr

\* lines 146-154: the error WriteMessage returns after n, err := conn.Write
DirectResult(n, werr, want, at) ==
    IF werr THEN Err("transport", at, 0)
    ELSE IF n # want THEN Err("badwrite", n, want)
    ELSE NoErr

\* n, err := w.conn.Write(zBytes)
Direct(p) ==
    /\ call[p].pc = "direct"
    /\ LET z == ZBytes(p)
           at == Len(wire) + 1
       IN \E o \in InOutcomes(BLen(z)) :
            /\ wire' = Append(wire, [by |-> p, data |-> z, n |-> o.n, err |-> o.err])
            /\ call' = [call EXCEPT ![p].err = DirectResult(o.n, o.err, BLen(z), at),
                                    ![p].pc = "ret"]
    /\ UNCHANGED << cfg, active, pool, buf >>

\* ---- writeChunked ----------------------------------------------------------
\* chunk i of n of the bytes z: header, then z[i*cap : min(len(z), (i+1)*cap)]
Chunk(z, id, i, n) ==
    Cat(Header(id, i, n),
        Slice(z, i * chunkedDataLen, Min(BLen(z), (i + 1) * chunkedDataLen)))

\* entry: the count, the cap on it, and one message identifier for the message
ChunkStart(p) ==
    /\ call[p].pc = "chunked"
    /\ LET n == numChunks(ZBytes(p))
       IN IF n > maxChunks
          THEN call' = [call EXCEPT ![p].nChunks = n,
                                    ![p].cerr = Err("toolarge", n, maxChunks),
                                    ![p].pc = "chunkret"]
          ELSE \E id \in MsgIds :
                 call' = [call EXCEPT ![p].nChunks = n, ![p].msgId = id,
                                      ![p].i = 0, ![p].pc = "chunkloop"]
    /\ UNCHANGED << cfg, active, pool, buf, wire >>

\* one turn of the loop: frame chunk i and write it as one datagram
ChunkSend(p) ==
    /\ call[p].pc = "chunkloop"
    /\ LET c == call[p]
           z == ZBytes(p)
           at == Len(wire) + 1
       IN IF c.i * chunkedDataLen > BLen(z)
          THEN \* slice bounds out of range
               /\ call' = [call EXCEPT ![p].panicked = TRUE, ![p].pc = "ret"]
               /\ UNCHANGED wire
          ELSE LET d == Chunk(z, c.msgId, c.i, c.nChunks)
               IN \E o \in InOutcomes(BLen(d)) :
                    /\ wire' = Append(wire, [by |-> p, data |-> d,
                                             n |-> o.n, err |-> o.err])
                    /\ call' = [call EXCEPT ![p] =
                         IF o.err
                         THEN [@ EXCEPT !.cerr = Err("transport", at, 0),
                                        !.pc = "chunkret"]
                         ELSE IF o.n # BLen(d)
                         THEN [@ EXCEPT !.cerr = Err("badwrite", o.n, BLen(d)),
                                        !.pc = "chunkret"]
                         ELSE IF c.i + 1 < c.nChunks
                         THEN [@ EXCEPT !.i = @ + 1]
                         ELSE [@ EXCEPT !.i = @ + 1, !.cerr = NoErr,
                                        !.pc = "chunkret"]]
    /\ UNCHANGED << cfg, active, pool, buf >>

\* WriteMessage going on to the direct write after writeChunked
AfterChunkedFallThrough == "direct"

\* "return w.writeChunked(zBytes)": WriteMessage returns what the sender did
AfterChunked == "ret"

ChunkRet(p) ==
    /\ call[p].pc = "chunkret"
    /\ call' = [call EXCEPT ![p].err = call[p].cerr, ![p].pc = AfterChunked]
    /\ UNCHANGED << cfg, active, pool, buf, wire >>

\* ---- return ---------------------------------------------------------------
\* the deferred bufPool.Put calls run last in, first out
Defer(p) ==
    /\ call[p].pc = "ret"
    /\ call[p].defers # << >>
    /\ LET b == Head(call[p].defers)
       IN /\ pool' = pool \cup {b}
          /\ call' = [call EXCEPT ![p].defers = Tail(@),
                                  ![p].puts = Append(@, b)]
    /\ UNCHANGED << cfg, active, buf, wire >>

\* Write reporting len(p) whatever WriteMessage returned
WriteResultAlwaysLen(plen, err) == [n |-> plen, err |-> err]

\* Write: (0, err) when WriteMessage failed, (len(p), nil) otherwise
WriteResult(plen, err) ==
    IF err # NoErr THEN [n |-> 0, err |-> err] ELSE [n |-> plen, err |-> NoErr]

\* WriteMessage returns (or the panic leaves it); Write returns after it
Return(p) ==
    /\ call[p].pc = "ret"
    /\ call[p].defers = << >>
    /\ LET c == call[p]
       IN call' = [call EXCEPT ![p] =
            IF c.panicked THEN [c EXCEPT !.pc = "panicked"]
            ELSE IF c.kind = "Write"
            THEN [c EXCEPT !.ret = WriteResult(c.plen, c.err), !.pc = "done"]
            ELSE [c EXCEPT !.pc = "done"]]
    /\ UNCHANGED << cfg, active, pool, buf, wire >>

Next ==
    \E p \in Procs :
        \/ Start(p)
        \/ GetM(p)
        \/ Marshal(p)
        \/ Switch(p)
        \/ GetZ(p)
        \/ NewZW(p)
        \/ ZWrite(p)
        \/ ZClose(p)
        \/ Plan(p)
        \/ Direct(p)
        \/ ChunkStart(p)
        \/ ChunkSend(p)
        \/ ChunkRet(p)
        \/ Defer(p)
        \/ Return(p)

Spec == Init /\ [][Next]_vars

SpecConc == InitConc /\ [][Next]_vars

\* ---- the claims -----------------------------------------------------------
Returned(p) == call[p].pc \in {"ret", "done"}
Ended(p) == call[p].pc \in {"done", "panicked"}

CeilDiv(a, b) == (a + b - 1) \div b

\* the header and the data portion of a chunk datagram
IsChunk(d) ==
    /\ d # << >>
    /\ d[1].kind = "hdr" /\ d[1].lo = 0 /\ d[1].hi = chunkedHeaderLen
DataOf(d) == Drop(d, chunkedHeaderLen)

\* the data portions of the chunks in S, concatenated by sequence index k .. n-1
RECURSIVE Reassemble(_, _, _)
Reassemble(S, k, n) ==
    IF k >= n THEN << >>
    ELSE LET c == SelectSeq(S, LAMBDA e : IsChunk(e.data) /\ e.data[1].x = k)
         IN IF Len(c) # 1 THEN Bytes("missing", k, 0, 0, 0, 1)
            ELSE Cat(DataOf(c[1].data), Reassemble(S, k + 1, n))

\* C1: for every compressed payload longer than ChunkSize, numChunks is the
\* ceiling of its length over chunkedDataLen (1408), exact multiples included.
C1_NumChunksIsCeiling ==
    \A p \in Procs :
        (call[p].planned > 0 /\ BLen(call[p].z) > ChunkSize)
            => call[p].planned = CeilDiv(BLen(call[p].z), chunkedDataLen)

\* C2: a compressed payload of at most ChunkSize bytes (1409..1420 included)
\* is planned as one chunk and goes out on the direct path: exactly one
\* transport write, of the payload itself, with no chunk header.
C2_SmallPayloadDirect ==
    \A p \in Procs :
        (call[p].planned > 0 /\ BLen(call[p].z) <= ChunkSize)
            => /\ call[p].planned = 1
               /\ call[p].path = "direct"
               /\ Returned(p)
                    => /\ Len(Sent(p)) = 1
                       /\ Sent(p)[1].data = call[p].z
                       /\ ~IsChunk(Sent(p)[1].data)

C2_Witness ==
    \E p \in Procs :
        /\ call[p].pc = "done" /\ call[p].err = NoErr
        /\ BLen(call[p].z) = ChunkSize
        /\ Len(Sent(p)) = 1

\* C3: when a chunked send of a payload longer than ChunkSize has sent all
\* its chunks, the data portions (from offset 12) concatenated in sequence
\* order are the payload, and as many chunks went out as numChunks counted.
C3_ChunksReassemble ==
    \A p \in Procs :
        (Returned(p) /\ call[p].path = "chunked" /\ call[p].err = NoErr)
            => /\ Len(Sent(p)) = call[p].planned
               /\ Reassemble(Sent(p), 0, Len(Sent(p))) = call[p].z

C3_Witness ==
    \E p \in Procs :
        /\ call[p].pc = "done" /\ call[p].path = "chunked" /\ call[p].err = NoErr
        /\ BLen(call[p].z) = 2 * chunkedDataLen + 1
        /\ Len(Sent(p)) = 3

\* C4: the headers of one completed chunked send carry the sequence indices
\* 0 .. n-1 in order, each once; every header carries the same total, which
\* is the number of chunks sent, and the same message identifier.
C4_HeadersConsistent ==
    \A p \in Procs :
        (Returned(p) /\ call[p].path = "chunked" /\ call[p].err = NoErr)
            => LET S == Sent(p)
               IN /\ Len(S) > 1
                  /\ \A k \in 1 .. Len(S) :
                        /\ IsChunk(S[k].data)
                        /\ S[k].data[1].x = k - 1
                        /\ S[k].data[1].y = Len(S)
                        /\ S[k].data[1].id = S[1].data[1].id

C4_Witness ==
    \E p \in Procs :
        /\ call[p].pc = "done" /\ call[p].path = "chunked" /\ call[p].err = NoErr
        /\ Len(Sent(p)) = 3
        /\ call[p].msgId = NumMsgIds

\* C5: when a WriteMessage call has ended, on any exit path, it holds no
\* pooled buffer any more and every buffer it acquired was put back once.
C5_BuffersReleasedOnce ==
    \A p \in Procs :
        Ended(p)
            => /\ Held(p) = {}
               /\ Len(call[p].puts) = Len(call[p].acq)
               /\ \A b \in BufIds :
                     Len(SelectSeq(call[p].puts, LAMBDA e : e = b))
                        = Len(SelectSeq(call[p].acq, LAMBDA e : e = b))
               /\ \A j, k \in 1 .. Len(call[p].acq) :
                     call[p].acq[j] = call[p].acq[k] => j = k

C5_Witness ==
    \E p \in Procs :
        /\ call[p].pc = "done"
        /\ Len(call[p].acq) = 2
        /\ call[p].err.kind = "zwrite"

\* C6: when the transport write of chunk k fails, no chunk is written after
\* it or again, the call has made exactly k transport writes, and
\* WriteMessage returns the error of that write.
C6_ChunkFailureAborts ==
    \A p \in Procs :
        call[p].path = "chunked"
            => \A j \in 1 .. Len(wire) :
                 (wire[j].by = p /\ wire[j].err)
                    => /\ \A i \in 1 .. Len(wire) : wire[i].by = p => i <= j
                       /\ Len(Sent(p)) = wire[j].data[1].x + 1
                       /\ \A i \in 1 .. Len(Sent(p)) :
                             /\ IsChunk(Sent(p)[i].data)
                             /\ Sent(p)[i].data[1].x = i - 1
                       /\ Returned(p) => call[p].err = Err("transport", j, 0)

C6_Witness ==
    \E p \in Procs :
        /\ call[p].pc = "done" /\ call[p].path = "chunked"
        /\ call[p].planned = 3
        /\ Len(Sent(p)) = 2 /\ Sent(p)[2].err
        /\ call[p].err.kind = "transport"

\* C7: when the codec cannot be built, or the compressor's Write or Close
\* fails, WriteMessage returns that error and writes nothing to the transport.
C7_CompressErrorNotSent ==
    \A p \in Procs :
        (Returned(p)
           /\ \/ call[p].err.kind \in {"level", "zwrite"}
              \/ call[p].closeFailed)
            => /\ call[p].err.kind \in {"level", "zwrite", "zclose"}
               /\ Sent(p) = << >>

\* C8: a transport write that reports no error but a count other than the
\* datagram's length makes WriteMessage return the short-write error with
\* the observed and the expected count; WriteMessage returns nil only when
\* every transport write it made reported the full length.
C8_ShortWriteReported ==
    \A p \in Procs :
        Returned(p)
            => /\ \A k \in 1 .. Len(Sent(p)) :
                    LET e == Sent(p)[k]
                    IN (~e.err /\ e.n # BLen(e.data))
                          => call[p].err = Err("badwrite", e.n, BLen(e.data))
               /\ call[p].err = NoErr
                    => \A k \in 1 .. Len(Sent(p)) :
                          ~Sent(p)[k].err /\ Sent(p)[k].n = BLen(Sent(p)[k].data)

C8_Witness ==
    \E p \in Procs :
        /\ call[p].pc = "done" /\ call[p].path = "direct"
        /\ Len(Sent(p)) = 1
        /\ ~Sent(p)[1].err /\ Sent(p)[1].n = ChunkSize - 1
        /\ call[p].err = Err("badwrite", ChunkSize - 1, ChunkSize)

\* C9: Write(p) returns (len(p), nil) exactly when WriteMessage returned nil,
\* whatever went on the wire, and (0, err) with WriteMessage's error
\* otherwise; never a count between, never a count with an error.
C9_WriteResult ==
    \A p \in Procs :
        (call[p].pc = "done" /\ call[p].kind = "Write")
            => LET r == call[p].ret
               IN /\ (r = [n |-> call[p].plen, err |-> NoErr]) <=> (call[p].err = NoErr)
                  /\ call[p].err # NoErr => r = [n |-> 0, err |-> call[p].err]
                  /\ r.n \in {0, call[p].plen}
                  /\ r.n # 0 => r.err = NoErr

C9_Witness ==
    \E p \in Procs :
        /\ call[p].pc = "done" /\ call[p].kind = "Write"
        /\ call[p].plen = MaxPLen
        /\ call[p].ret = [n |-> MaxPLen, err |-> NoErr]
        /\ Len(Sent(p)) = 3

\* C10 as stated: with a CompressionType other than Gzip, Zlib and None every
\* WriteMessage call panics: it never returns and writes nothing.
C10_UnknownTypeAlwaysPanics ==
    \A p \in Procs :
        cfg.ctype \notin {CompressGzip, CompressZlib, CompressNone}
            => call[p].pc # "done" /\ Sent(p) = << >>

\* C10 amended: with such a CompressionType a call whose record serialises
\* ends in the panic and never returns; a call whose serialisation fails
\* returns the serialisation error; neither writes to the transport.
C10_UnknownTypePanicsAfterMarshal ==
    \A p \in Procs :
        cfg.ctype \notin {CompressGzip, CompressZlib, CompressNone}
            => /\ Sent(p) = << >>
               /\ call[p].pc \notin {"getZ", "plan", "direct", "chunked"}
               /\ call[p].pc = "done"
                    => ~call[p].rec.ok /\ call[p].err = Err("marshal", 0, 0)
               /\ (Ended(p) /\ call[p].rec.ok) => call[p].pc = "panicked"
               /\ call[p].pc = "panicked" => call[p].rec.ok

C10_Witness ==
    \E p \in Procs :
        /\ cfg.ctype \notin {CompressGzip, CompressZlib, CompressNone}
        /\ call[p].pc = "panicked"
        /\ call[p].rec.ok
        /\ Held(p) = {}

C12_BuffersExclusive ==
    /\ [](/\ \A p, q \in Procs : p # q => Held(p) \cap Held(q) = {}
          /\ \A p \in Procs : Held(p) \cap pool = {}
          /\ \A k \in 1 .. Len(wire) : \A j \in 1 .. Len(wire[k].data) :
                \/ wire[k].data[j].kind = "hdr"
                \/ wire[k].data[j].id = wire[k].by)
    /\ [][\A b \in BufIds :
             buf'[b] # buf[b]
                => \A p \in Procs : b \in Held(p) => call'[p] # call[p]]_vars

C12_Witness ==
    /\ \A p \in {1, 2} :
          /\ call[p].pc = "ret"
          /\ Cardinality(Held(p)) = 2
          /\ Sent(p) # << >>
    /\ Len(wire) > 2
    /\ wire[1].by # wire[2].by

\* the bytes a call delivered: the one datagram, or the chunks' data portions
\* concatenated in sequence order
Delivered(p) ==
    IF call[p].path = "direct"
    THEN IF Len(Sent(p)) = 1 THEN Sent(p)[1].data
         ELSE Bytes("missing", 0, 0, 0, 0, 1)
    ELSE Reassemble(Sent(p), 0, Len(Sent(p)))

\* C13: with CompressNone the bytes a successful call delivers are the
\* serialised record, byte for byte.
C13_NoneSendsRecord ==
    \A p \in Procs :
        (cfg.ctype = CompressNone /\ Returned(p) /\ call[p].err = NoErr)
            => /\ Sent(p) # << >>
               /\ Delivered(p) = Json(call[p].rec)

C13_Witness ==
    \E p \in Procs :
        /\ cfg.ctype = CompressNone
        /\ call[p].pc = "done" /\ call[p].err = NoErr
        /\ call[p].rec.len = 2 * chunkedDataLen + 1
        /\ Len(Sent(p)) = 3
        /\ call[p].residue > 0

\* what the standard decoder of codec t makes of the bytes s: the input of a
\* whole stream, and nothing usable of a truncated or foreign one
Decompress(t, s) ==
    IF /\ Len(s) = 1
       /\ s[1].kind = CodecKind(t)
       /\ s[1].lo = 0 /\ s[1].hi = s[1].y
    THEN Bytes("json", s[1].id, s[1].x, 0, 0, s[1].x)
    ELSE Bytes("corrupt", 0, 0, 0, 0, 1)

\* C14: with CompressGzip or CompressZlib, decompressing the bytes a
\* successful call delivered (chunks reassembled) with the matching decoder
\* gives the serialised record exactly.
C14_CompressedRoundTrip ==
    \A p \in Procs :
        (cfg.ctype \in {CompressGzip, CompressZlib}
           /\ Returned(p) /\ call[p].err = NoErr)
            => Decompress(cfg.ctype, Delivered(p)) = Json(call[p].rec)

\* C15: in a chunked send of a payload of L bytes into n = numChunks chunks,
\* every chunk but the last carries chunkedDataLen data bytes, the last one
\* carries L - (n-1) * chunkedDataLen, between 1 and chunkedDataLen, and no
\* chunk is emitted with an empty data portion.
C15_ChunkDataLengths ==
    \A p \in Procs :
        call[p].path = "chunked"
            => \A k \in 1 .. Len(Sent(p)) :
                  LET d == Sent(p)[k].data
                      dl == BLen(DataOf(d))
                      n == call[p].planned
                      L == BLen(call[p].z)
                  IN /\ IsChunk(d)
                     /\ dl >= 1
                     /\ k < n => dl = chunkedDataLen
                     /\ k = n => /\ dl = L - (n - 1) * chunkedDataLen
                                 /\ dl <= chunkedDataLen

\* the chunk datagrams on the wire that carry the message identifier id
Group(id) ==
    SelectSeq(wire, LAMBDA e : IsChunk(e.data) /\ e.data[1].id = id)

\* C16: under every interleaving of concurrent calls each transport write is
\* one whole datagram of one message (the caller's payload, or one chunk of
\* it under the caller's message identifier), a message's chunks are written
\* in increasing sequence order, and when the identifiers of the chunked
\* messages differ, the datagrams grouped by identifier and ordered by
\* sequence index give back each call's compressed payload.
C16_InterleavedDemux ==
    /\ \A k \in 1 .. Len(wire) :
          LET e == wire[k]
              c == call[e.by]
          IN IF c.path = "chunked"
             THEN /\ IsChunk(e.data)
                  /\ e.data[1].id = c.msgId
                  /\ e.data[1].x < c.nChunks
                  /\ DataOf(e.data) =
                        Slice(c.z, e.data[1].x * chunkedDataLen,
                              Min(BLen(c.z), (e.data[1].x + 1) * chunkedDataLen))
             ELSE e.data = c.z
    /\ \A p \in Procs : \A j, k \in 1 .. Len(Sent(p)) :
          (j < k /\ IsChunk(Sent(p)[j].data) /\ IsChunk(Sent(p)[k].data))
              => Sent(p)[j].data[1].x < Sent(p)[k].data[1].x
    /\ \A p \in Procs :
          (/\ call[p].path = "chunked"
           /\ Returned(p) /\ call[p].err = NoErr
           /\ \A q \in Procs \ {p} :
                 (call[q].path = "chunked" /\ call[q].msgId # 0)
                     => call[q].msgId # call[p].msgId)
              => Reassemble(Group(call[p].msgId), 0, call[p].nChunks) = call[p].z

C16_Witness ==
    /\ Len(wire) = 4
    /\ wire[1].by # wire[2].by /\ wire[2].by # wire[3].by
    /\ wire[3].by # wire[4].by
    /\ \A p \in {1, 2} :
          /\ call[p].pc = "done" /\ call[p].err = NoErr
          /\ call[p].path = "chunked"
    /\ call[1].msgId # call[2].msgId

\* C17: a compressor that was opened is closed exactly once before the call
\* returns, whether its Write succeeds or fails, and never more than once;
\* when the Write fails WriteMessage returns the Write error, whatever the
\* Close after it reports.
C17_CompressorClosedOnce ==
    \A p \in Procs :
        /\ call[p].closes <= call[p].opened
        /\ call[p].opened <= 1
        /\ (Returned(p) /\ call[p].opened = 1) => call[p].closes = 1
        /\ (Returned(p) /\ call[p].zwFailed)
              => call[p].err = Err("zwrite", 0, 0)

C17_Witness ==
    \E p \in Procs :
        /\ call[p].pc = "done"
        /\ call[p].opened = 1 /\ call[p].closes = 1
        /\ call[p].zwFailed /\ call[p].closeFailed
        /\ call[p].err = Err("zwrite", 0, 0)

\* C18: a call that reaches the compression step takes exactly one pooled
\* scratch buffer with CompressGzip or CompressZlib and none otherwise,
\* besides the buffer of the serialised record, and has released the scratch
\* buffer once it ended, a failed codec construction or Write included.
C18_OneScratchBuffer ==
    \A p \in Procs :
        LET scratch == IF cfg.ctype \in {CompressGzip, CompressZlib} THEN 1 ELSE 0
        IN /\ Len(call[p].acq) <= 1 + scratch
           /\ (call[p].zBuf # 0) => call[p].zBuf # call[p].mBuf
           /\ (Ended(p) /\ call[p].rec.ok)
                 => /\ Len(call[p].acq) = 1 + scratch
                    /\ (call[p].zBuf # 0) <=> (scratch = 1)
                    /\ Held(p) = {}
                    /\ call[p].zBuf # 0
                          => Len(SelectSeq(call[p].puts,
                                           LAMBDA b : b = call[p].zBuf)) = 1

C18_Witness ==
    \E p \in Procs :
        /\ call[p].pc = "done"
        /\ call[p].err.kind \in {"level", "zwrite"}
        /\ call[p].zBuf # 0
        /\ call[p].zBuf \in pool

\* C19: a buffer newBuffer returns has length zero when the call gets it,
\* whatever it held when it was put back, so the serialised and the
\* compressed bytes of a call hold nothing of an earlier use of the buffer.
C19_NoResidue ==
    \A p \in Procs :
        /\ call[p].pc = "marshal" => buf[call[p].mBuf] = << >>
        /\ call[p].pc = "newzw" => buf[call[p].zBuf] = << >>
        /\ (call[p].mlen > 0 /\ call[p].mBuf \in Held(p))
              => MBytes(p) = Json(call[p].rec)
        /\ \A j \in 1 .. Len(call[p].z) :
              /\ call[p].z[j].id = call[p].rec.id
              /\ call[p].z[j].x = call[p].rec.len
        /\ \A k \in 1 .. Len(Sent(p)) : \A j \in 1 .. Len(Sent(p)[k].data) :
              \/ Sent(p)[k].data[j].kind = "hdr"
              \/ /\ Sent(p)[k].data[j].id = call[p].rec.id
                 /\ Sent(p)[k].data[j].x = call[p].rec.len

C19_Witness ==
    \E p \in Procs : \E q \in Procs \ {p} :
        /\ call[p].pc = "done" /\ call[p].err = NoErr
        /\ call[p].residue > 0 /\ call[q].residue = 0
        /\ \E k \in 1 .. Len(call[q].puts) : call[q].puts[k] = call[p].mBuf
        /\ Sent(p) # << >>

\* C20: every datagram handed to the transport, direct or chunk, is at most
\* ChunkSize (1420) bytes long; a chunk is its 12-byte header and at most
\* chunkedDataLen (1408) data bytes.
C20_DatagramAtMostChunkSize ==
    \A k \in 1 .. Len(wire) :
        /\ BLen(wire[k].data) <= ChunkSize
        /\ IsChunk(wire[k].data)
              => /\ BLen(wire[k].data) = chunkedHeaderLen + BLen(DataOf(wire[k].data))
                 /\ BLen(DataOf(wire[k].data)) <= chunkedDataLen

C20_Witness ==
    \E p \in Procs :
        /\ call[p].pc = "done" /\ call[p].err = NoErr
        /\ BLen(call[p].z) = 2 * chunkedDataLen + 1
        /\ Len(Sent(p)) = 3
        /\ BLen(Sent(p)[1].data) = ChunkSize
        /\ BLen(Sent(p)[3].data) = chunkedHeaderLen + 1

====
